---- MODULE Spec2Model ----
(***************************************************************************)
(* A model of lilint's ConditionalCheckerChecker (src/lilint.py): the      *)
(* visit_call callback and its two guard detectors, run by a host linter   *)
(* over an astroid tree with parent links.                                 *)
(*                                                                         *)
(* AST nodes are records; a record has exactly the attributes the astroid  *)
(* node class has, so that an attribute the Python code reads on a node    *)
(* that does not carry it is an AttributeError here as it is there.        *)
(***************************************************************************)
EXTENDS Naturals, Sequences, FiniteSets

VARIABLES tree, order, pass, pos, sink, status, error

vars == <<tree, order, pass, pos, sink, status, error>>

-----------------------------------------------------------------------------
(* Bounds of the model.                                                    *)

\* AST nodes above the visited call (ancestors and their decorators).
MaxNodes == 3
\* Call sites of a tree walked in a full pass.
MaxCalls == 2
\* Runs of the rule over the same tree.
MaxPasses == 2

-----------------------------------------------------------------------------
(* The astroid node classes the code inspects.                             *)

Kinds == {"E1234", "W5678"}

Name(id) == [type |-> "Name", name |-> id]

Const(v) == [type |-> "Const", value |-> v]

Attribute(a) == [type |-> "Attribute", attrname |-> a]

Call(f, as) == [type |-> "Call", func |-> f, args |-> as]

\* FunctionDef.decorators of an undecorated function is None.
NoneType == [type |-> "NoneType"]

Decorators(ds) == [type |-> "Decorators", nodes |-> ds]

FunctionDef(decs) == [type |-> "FunctionDef", decorators |-> decs]

If(t) == [type |-> "If", test |-> t]

\* Any statement that is neither an If nor a FunctionDef (a For, a With, ...).
Other == [type |-> "For"]

Module == [type |-> "Module"]

\* node.parent of the root.
None == <<>>

Root == <<0, 0>>

hasattr(node, attr) == attr \in DOMAIN node

isinstance(node, cls) == node.type = cls

-----------------------------------------------------------------------------
(* The trees the host hands to the rule.                                   *)

ArgNodes == {Const(k) : k \in Kinds} \cup {Name("msg_var")}

\* Positional arguments of a visited call.
CallArgs == {<<>>} \cup {<<a>> : a \in ArgNodes}

\* The Call nodes visit_call is handed.
CallNodes ==
    {Call(Attribute("add_message"), as) : as \in CallArgs}
        \cup {Call(Attribute("_is_message_enabled"), <<Const("E1234")>>),
              Call(Name("add_message"), <<Const("E1234")>>)}

\* Test expressions of an If.
Tests ==
    {Name("enabled"), Call(Name("_is_message_enabled"), <<Const("E1234")>>)}
        \cup {Call(Attribute(a), <<Const(k)>>) :
                a \in {"_is_message_enabled", "add_message"}, k \in Kinds}

DecoratorArgs ==
    {<<>>, <<Const("E1234"), Const("W5678")>>} \cup {<<a>> : a \in ArgNodes}

\* Decorator expressions of a FunctionDef.
DecoratorNodes ==
    {Name("staticmethod"), Call(Name("check_messages"), <<Const("E1234")>>)}
        \cup {Call(Attribute(a), as) :
                a \in {"check_messages", "only_required_for_messages", "register"},
                as \in DecoratorArgs}

\* The ancestors that count for w nodes: a statement, or a FunctionDef with
\* w - 1 decorators.
AncestorsOfWeight(w) ==
    IF w = 1
    THEN {Other, FunctionDef(NoneType), FunctionDef(Decorators(<<>>))}
            \cup {If(t) : t \in Tests}
    ELSE {FunctionDef(Decorators(ds)) : ds \in [1..(w - 1) -> DecoratorNodes]}

RECURSIVE ChainsOfWeight(_)
\* The ancestor chains of n nodes, innermost ancestor first.
ChainsOfWeight(n) ==
    IF n = 0
    THEN {<<>>}
    ELSE UNION {{<<a>> \o c : a \in AncestorsOfWeight(w), c \in ChainsOfWeight(n - w)} :
                   w \in 1..n}

Chains(n) == UNION {ChainsOfWeight(k) : k \in 0..n}

\* The tree of a module holding the given call sites, each a call under its
\* chain of ancestors: node <<s, 0>> is the call of site s, <<s, d>> its d-th
\* ancestor, and the parent of a site's outermost ancestor is the Module.
BuildTree(sites) ==
    LET ids == {Root} \cup
               UNION {{<<s, d>> : d \in 0..Len(sites[s].chain)} : s \in 1..Len(sites)}
    IN  [parent |-> [i \in ids |->
                        IF i = Root THEN None
                        ELSE IF i[2] < Len(sites[i[1]].chain) THEN <<i[1], i[2] + 1>>
                        ELSE Root],
         nodes |-> [i \in ids |->
                        IF i = Root THEN Module
                        ELSE IF i[2] = 0 THEN sites[i[1]].call
                        ELSE sites[i[1]].chain[i[2]]]]

\* A module with one call site under any chain of at most MaxNodes nodes.
SingleTrees ==
    {BuildTree(<<[call |-> c, chain |-> ch]>>) : c \in CallNodes, ch \in Chains(MaxNodes)}

\* The call sites of a module walked in full: a report-finding call at module
\* level, in an undecorated function, or in a function decorated for E1234.
PassSites ==
    {[call |-> Call(Attribute("add_message"), as), chain |-> ch] :
        as \in {<<>>, <<Const("E1234")>>, <<Name("msg_var")>>},
        ch \in {<<>>, <<FunctionDef(NoneType)>>,
                <<FunctionDef(Decorators(<<Call(Attribute("check_messages"),
                                                <<Const("E1234")>>)>>))>>}}

PassTrees == UNION {{BuildTree(ss) : ss \in [1..n -> PassSites]} : n \in 1..MaxCalls}

\* The Call nodes the host's walk hands to visit_call.
CallsOf(t) == {i \in DOMAIN t.nodes : i # Root /\ i[2] = 0}

\* The orders in which a walk may reach the calls.
Orders(t) ==
    {o \in [1..Cardinality(CallsOf(t)) -> CallsOf(t)] :
        \A i, j \in DOMAIN o : i # j => o[i] # o[j]}

-----------------------------------------------------------------------------
(* src/lilint.py                                                           *)

\* DecoratorMatches with only_required_for_messages left out of the names.
DecoratorMatchesCheckMessagesOnly(node, msg) ==
    IF ~isinstance(node, "Call") THEN "False"
    ELSE IF ~hasattr(node.func, "attrname") THEN "AttributeError"
    ELSE IF /\ node.func.attrname \in {"check_messages"}
            /\ Len(node.args) = 1
            /\ isinstance(node.args[1], "Const")
            /\ node.args[1].value = msg
         THEN "True"
         ELSE "False"

\* DecoratorMatches without the comparison of the literal with msg.
DecoratorMatchesAnyKind(node, msg) ==
    IF ~isinstance(node, "Call") THEN "False"
    ELSE IF ~hasattr(node.func, "attrname") THEN "AttributeError"
    ELSE IF /\ node.func.attrname \in {"only_required_for_messages", "check_messages"}
            /\ Len(node.args) = 1
            /\ isinstance(node.args[1], "Const")
         THEN "True"
         ELSE "False"

\* The condition of lines 22-32 on one decorator: "True", "False", or the
\* exception reading node.func.attrname raises.
DecoratorMatches(node, msg) ==
    IF ~isinstance(node, "Call") THEN "False"
    ELSE IF ~hasattr(node.func, "attrname") THEN "AttributeError"
    ELSE IF /\ node.func.attrname \in {"only_required_for_messages", "check_messages"}
            /\ Len(node.args) = 1
            /\ isinstance(node.args[1], "Const")
            /\ node.args[1].value = msg
         THEN "True"
         ELSE "False"

RECURSIVE ForDecorators(_, _, _)
\* The for loop of lines 21-33 from decorator i on: "True" when it returns
\* True, "False" when it runs out, or the exception.
ForDecorators(nodes, i, msg) ==
    IF i > Len(nodes) THEN "False"
    ELSE LET m == DecoratorMatches(nodes[i], msg)
         IN  IF m = "False" THEN ForDecorators(nodes, i + 1, msg) ELSE m

RECURSIVE WhileDecorators(_, _, _)
\* The while loop of lines 18-34 from `parent` on.
WhileDecorators(t, parent, msg) ==
    IF parent = None THEN "False"
    ELSE IF isinstance(t.nodes[parent], "FunctionDef")
         THEN LET decorators == t.nodes[parent].decorators
              IN  IF ~hasattr(decorators, "nodes") THEN "AttributeError"
                  ELSE LET r == ForDecorators(decorators.nodes, 1, msg)
                       IN  IF r = "False"
                           THEN WhileDecorators(t, t.parent[parent], msg)
                           ELSE r
         ELSE WhileDecorators(t, t.parent[parent], msg)

_check_for_decorators(t, node, msg) == WhileDecorators(t, t.parent[node], msg)

\* A node object compared with a str (line 42): astroid nodes define no
\* __eq__, so the comparison is by identity and is False.
NodeEqualsStr(arg, msg) == FALSE

\* node is the Attribute parent.test.func.
_check_call(node, msg) ==
    IF node.attrname = "add_message"
    THEN IF ~hasattr(node, "args") THEN "AttributeError"
         ELSE IF Len(node.args) = 0 THEN "IndexError"
         ELSE IF isinstance(node.args[1], "Const") /\ NodeEqualsStr(node.args[1], msg)
              THEN "True"
              ELSE "False"
    ELSE "False"

RECURSIVE WhileIf(_, _, _)
\* The while loop of lines 55-60 from `parent` on.
WhileIf(t, parent, msg) ==
    IF parent = None THEN "False"
    ELSE IF /\ isinstance(t.nodes[parent], "If")
            /\ isinstance(t.nodes[parent].test, "Call")
            /\ isinstance(t.nodes[parent].test.func, "Attribute")
         THEN LET r == _check_call(t.nodes[parent].test.func, msg)
              IN  IF r = "False" THEN WhileIf(t, t.parent[parent], msg) ELSE r
         ELSE WhileIf(t, t.parent[parent], msg)

_check_for_if(t, node, msg) == WhileIf(t, t.parent[node], msg)

Returns == [diag |-> "", exc |-> ""]

Emits(msgid) == [diag |-> msgid, exc |-> ""]

Raises(e) == [diag |-> "", exc |-> e]

\* visit_call without its last else branch: a non-literal kind is let through.
visit_callNoElse(t, node) ==
    LET func == t.nodes[node].func
        args == t.nodes[node].args
    IN  IF isinstance(func, "Attribute") /\ func.attrname = "add_message"
        THEN IF Len(args) = 0 THEN Raises("IndexError")
             ELSE LET msg == args[1]
                  IN  IF isinstance(msg, "Const")
                      THEN LET d == _check_for_decorators(t, node, msg.value)
                           IN  IF d = "True" THEN Returns
                               ELSE IF d # "False" THEN Raises(d)
                               ELSE LET i == _check_for_if(t, node, msg.value)
                                    IN  IF i = "True" THEN Returns
                                        ELSE IF i # "False" THEN Raises(i)
                                        ELSE Emits("non-conditional-checker")
                      ELSE Returns
        ELSE Returns

\* What one invocation does: the diagnostic it reports, or the exception
\* that leaves it.
visit_call(t, node) ==
    LET func == t.nodes[node].func
        args == t.nodes[node].args
    IN  IF isinstance(func, "Attribute") /\ func.attrname = "add_message"
        THEN IF Len(args) = 0 THEN Raises("IndexError")
             ELSE LET msg == args[1]
                  IN  IF isinstance(msg, "Const")
                      THEN LET d == _check_for_decorators(t, node, msg.value)
                           IN  IF d = "True" THEN Returns
                               ELSE IF d # "False" THEN Raises(d)
                               ELSE LET i == _check_for_if(t, node, msg.value)
                                    IN  IF i = "True" THEN Returns
                                        ELSE IF i # "False" THEN Raises(i)
                                        ELSE Emits("non-conditional-checker")
                      ELSE Emits("cant-determine-message")
        ELSE Returns

\* BaseChecker.add_message: the host's sink, append only.
add_message(snk, p, msgid, node) ==
    Append(snk, [pass |-> p, msgid |-> msgid, node |-> node])

-----------------------------------------------------------------------------
(* The host's walk.                                                        *)

\* VisitCall of a rule that remembers the nodes it has reported and reports
\* none of them again.
VisitCallRemembering ==
    /\ status = "walking"
    /\ pos <= Len(order)
    /\ LET node == order[pos]
           r == visit_call(tree, node)
           seen == \E k \in DOMAIN sink : sink[k].node = node
       IN  /\ sink' = IF r.diag # "" /\ ~seen
                      THEN add_message(sink, pass, r.diag, node)
                      ELSE sink
           /\ IF r.exc # ""
              THEN status' = "aborted" /\ error' = r.exc /\ pos' = pos
              ELSE status' = "walking" /\ error' = error /\ pos' = pos + 1
    /\ UNCHANGED <<tree, order, pass>>

\* The host hands the next Call node of its walk to visit_call; an exception
\* that leaves visit_call ends the walk.
VisitCall ==
    /\ status = "walking"
    /\ pos <= Len(order)
    /\ LET node == order[pos]
           r == visit_call(tree, node)
       IN  /\ sink' = IF r.diag # "" THEN add_message(sink, pass, r.diag, node) ELSE sink
           /\ IF r.exc # ""
              THEN status' = "aborted" /\ error' = r.exc /\ pos' = pos
              ELSE status' = "walking" /\ error' = error /\ pos' = pos + 1
    /\ UNCHANGED <<tree, order, pass>>

\* A run of the linter over the tree begins.
StartPass ==
    /\ status \in {"idle", "done", "aborted"}
    /\ pass < MaxPasses
    /\ pass' = pass + 1
    /\ pos' = 1
    /\ status' = "walking"
    /\ error' = ""
    /\ UNCHANGED <<tree, order, sink>>

\* The walk has handed over every Call node.
EndPass ==
    /\ status = "walking"
    /\ pos > Len(order)
    /\ status' = "done"
    /\ UNCHANGED <<tree, order, pass, pos, sink, error>>

\* One invocation of visit_call on the call of a one-site module.
Init ==
    /\ tree \in SingleTrees
    /\ order = <<<<1, 0>>>>
    /\ pass = 1
    /\ pos = 1
    /\ sink = <<>>
    /\ status = "walking"
    /\ error = ""

Next == VisitCall

Spec == Init /\ [][Next]_vars

\* Full passes over a module with several call sites.
PassInit ==
    /\ tree \in PassTrees
    /\ order \in Orders(tree)
    /\ pass = 0
    /\ pos = 1
    /\ sink = <<>>
    /\ status = "idle"
    /\ error = ""

PassNext == StartPass \/ VisitCall \/ EndPass

PassSpec == PassInit /\ [][PassNext]_vars

-----------------------------------------------------------------------------
(* What the claims speak of, read off the tree.                            *)

TheCall == <<1, 0>>

call == tree.nodes[TheCall]

RECURSIVE PathUp(_, _)
\* The ancestors of n, innermost first.
PathUp(t, n) ==
    IF t.parent[n] = None THEN <<>> ELSE <<t.parent[n]>> \o PathUp(t, t.parent[n])

IsFunctionDefAt(i) == tree.nodes[i].type = "FunctionDef"

IsIfAt(i) == tree.nodes[i].type = "If"

path == PathUp(tree, TheCall)

\* The enclosing function definitions, nearest first.
funcs == SelectSeq(path, IsFunctionDefAt)

ifs == SelectSeq(path, IsIfAt)

\* visit_call has run on the call.
Visited == pos = 2 \/ status = "aborted"

ReturnedNormally == status = "walking" /\ pos = 2 /\ error = ""

IsReport(c) == c.func.type = "Attribute" /\ c.func.attrname = "add_message"

HasLiteralKind(c) == Len(c.args) >= 1 /\ c.args[1].type = "Const"

KindOf(c) == c.args[1].value

GuardNames == {"only_required_for_messages", "check_messages"}

\* if <x>._is_message_enabled(K): ...
GuardingIf(nd, K) ==
    /\ nd.type = "If"
    /\ nd.test.type = "Call"
    /\ nd.test.func.type = "Attribute"
    /\ nd.test.func.attrname = "_is_message_enabled"
    /\ Len(nd.test.args) >= 1
    /\ nd.test.args[1].type = "Const"
    /\ nd.test.args[1].value = K

\* if <x>._is_message_enabled(K'): ... for another literal K'
NearMissIf(nd, K) ==
    /\ nd.type = "If"
    /\ nd.test.type = "Call"
    /\ nd.test.func.type = "Attribute"
    /\ nd.test.func.attrname = "_is_message_enabled"
    /\ Len(nd.test.args) >= 1
    /\ nd.test.args[1].type = "Const"
    /\ nd.test.args[1].value # K

\* @<x>.check_messages(K) or @<x>.only_required_for_messages(K)
GuardingDecorator(d, K) ==
    /\ d.type = "Call"
    /\ d.func.type = "Attribute"
    /\ d.func.attrname \in GuardNames
    /\ Len(d.args) = 1
    /\ d.args[1].type = "Const"
    /\ d.args[1].value = K

\* The same decorator, its callee an attribute access or a bare name.
CarriesGuard(d, K) ==
    /\ d.type = "Call"
    /\ (IF d.func.type = "Attribute" THEN d.func.attrname ELSE d.func.name) \in GuardNames
    /\ Len(d.args) = 1
    /\ d.args[1].type = "Const"
    /\ d.args[1].value = K

\* A decorator call through an attribute access that is not the guard for K:
\* another literal, another number of arguments, a non-literal, another name.
NearMissDecorator(d, K) ==
    /\ d.type = "Call"
    /\ d.func.type = "Attribute"
    /\ ~GuardingDecorator(d, K)

HasDecorators(f) == tree.nodes[f].decorators.type = "Decorators"

DecoratorsAt(f) == tree.nodes[f].decorators.nodes

FunctionGuards(f, K) ==
    HasDecorators(f) /\ \E j \in DOMAIN DecoratorsAt(f) : GuardingDecorator(DecoratorsAt(f)[j], K)

IfGuarded(K) == \E i \in DOMAIN ifs : GuardingIf(tree.nodes[ifs[i]], K)

LiteralReport == IsReport(call) /\ HasLiteralKind(call)

NonConditionalAtCall ==
    sink = <<[pass |-> 1, msgid |-> "non-conditional-checker", node |-> TheCall]>>

CantDetermineAtCall ==
    sink = <<[pass |-> 1, msgid |-> "cant-determine-message", node |-> TheCall]>>

-----------------------------------------------------------------------------
(* The claims, under Spec.                                                 *)

\* C1: an add_message call with literal K under an If, at any depth, whose
\* test is directly a call of _is_message_enabled with literal K gets no
\* diagnostic from visit_call.
C1_IfGuardSuppresses ==
    (Visited /\ LiteralReport /\ IfGuarded(KindOf(call))) => sink = <<>>

\* C2: an add_message call with literal K whose nearest enclosing function
\* carries the decorator check_messages(K) or only_required_for_messages(K)
\* gets no diagnostic, with or without an enclosing if; and visit_call returns
\* normally when that decorator is called through an attribute access and no
\* decorator before it is a call of a bare name.
C2_DecoratorGuardSuppresses ==
    (/\ Visited
     /\ LiteralReport
     /\ Len(funcs) >= 1
     /\ HasDecorators(funcs[1])
     /\ \E j \in DOMAIN DecoratorsAt(funcs[1]) :
            CarriesGuard(DecoratorsAt(funcs[1])[j], KindOf(call)))
        => /\ sink = <<>>
           /\ (\E j \in DOMAIN DecoratorsAt(funcs[1]) :
                  /\ GuardingDecorator(DecoratorsAt(funcs[1])[j], KindOf(call))
                  /\ \A i \in 1..(j - 1) :
                        DecoratorsAt(funcs[1])[i].type = "Call"
                            => DecoratorsAt(funcs[1])[i].func.type = "Attribute")
                 => ReturnedNormally

\* A call with no enclosing if, in a function decorated with
\* only_required_for_messages for its kind, has been visited and let through.
C2_Witness ==
    /\ Visited
    /\ LiteralReport
    /\ Len(ifs) = 0
    /\ Len(funcs) = 1
    /\ HasDecorators(funcs[1])
    /\ \E j \in DOMAIN DecoratorsAt(funcs[1]) :
          /\ GuardingDecorator(DecoratorsAt(funcs[1])[j], KindOf(call))
          /\ DecoratorsAt(funcs[1])[j].func.attrname = "only_required_for_messages"
    /\ ReturnedNormally
    /\ sink = <<>>

\* C3: an add_message call with literal K guarded by neither mechanism (no
\* matching decorator on its enclosing function, no matching If ancestor),
\* wherever it sits, gets exactly one non-conditional-checker diagnostic
\* anchored at the call and nothing else.
C3_UnguardedIsReported ==
    (/\ Visited
     /\ LiteralReport
     /\ ~(Len(funcs) >= 1 /\ FunctionGuards(funcs[1], KindOf(call)))
     /\ ~IfGuarded(KindOf(call)))
        => NonConditionalAtCall

\* C4: an add_message call whose first positional argument is not a literal
\* gets exactly one cant-determine-message diagnostic anchored at the call,
\* whatever ifs and function definitions surround it, and visit_call returns
\* normally.
C4_NonLiteralIsReported ==
    (Visited /\ IsReport(call) /\ Len(call.args) >= 1 /\ call.args[1].type # "Const")
        => (CantDetermineAtCall /\ ReturnedNormally)

\* A call with a variable as its kind has been visited under an undecorated
\* function and an if that tests _is_message_enabled.
C4_Witness ==
    /\ Visited
    /\ IsReport(call)
    /\ Len(call.args) >= 1
    /\ call.args[1].type = "Name"
    /\ \E i \in DOMAIN funcs : ~HasDecorators(funcs[i])
    /\ \E i \in DOMAIN ifs : \E k \in Kinds : GuardingIf(tree.nodes[ifs[i]], k)
    /\ CantDetermineAtCall

\* C5: for an add_message call with literal K inside two nested function
\* definitions of which only the outer one carries a matching decorator, and
\* with no If guard, visit_call emits non-conditional-checker.
C5_DecoratorSearchStopsAtInnermost ==
    (/\ Visited
     /\ LiteralReport
     /\ Len(funcs) >= 2
     /\ ~FunctionGuards(funcs[1], KindOf(call))
     /\ FunctionGuards(funcs[2], KindOf(call))
     /\ ~IfGuarded(KindOf(call)))
        => NonConditionalAtCall

\* C6: when the first enclosing FunctionDef of an add_message call with a
\* literal kind has no decorators (None), visit_call does not raise: it goes
\* on to the conditional-guard detector and accepts or emits
\* non-conditional-checker.
C6_UndecoratedFunctionIsNoFault ==
    (/\ Visited
     /\ LiteralReport
     /\ Len(funcs) >= 1
     /\ ~HasDecorators(funcs[1]))
        => (error = "" /\ (sink = <<>> \/ NonConditionalAtCall))

\* C7: visit_call never ends in an error: for a Call node of any shape the
\* invocation returns normally with zero or one diagnostic appended.
C7_NeverRaises ==
    Visited => (ReturnedNormally /\ Len(sink) <= 1)

-----------------------------------------------------------------------------
(* The claims, under PassSpec.                                             *)

PassFinished == status \in {"done", "aborted"}

\* The diagnostics of pass p, as (kind, anchor) pairs.
DiagSet(snk, p) ==
    {[msgid |-> snk[k].msgid, node |-> snk[k].node] :
        k \in {j \in DOMAIN snk : snk[j].pass = p}}

DiagCount(snk, p) == Cardinality({j \in DOMAIN snk : snk[j].pass = p})

\* What the call sites produce one by one, whatever the order.
SiteDiagnostics ==
    {[msgid |-> visit_call(tree, n).diag, node |-> n] :
        n \in {m \in CallsOf(tree) : visit_call(tree, m).diag # ""}}

\* C8: the set of diagnostics of a full pass over a tree is the same for
\* every order in which the Call nodes are visited: it is what the call sites
\* produce one by one, and no abort at one call site changes what the others
\* produce.
C8_OrderIndependent ==
    PassFinished => DiagSet(sink, pass) = SiteDiagnostics

====
